---- MODULE Spec2Model ----
(***************************************************************************)
(* A model of configator's hydration engine (src/src/configator/core.py):  *)
(* load_config, the recursive _hydrate_model/_hydrate_field pair, the      *)
(* field matcher, the section index, the op:// link resolver and the value *)
(* coercions; and of the settings-source hook of ConfigatorSettings        *)
(* (src/src/configator/models.py).                                         *)
(*                                                                         *)
(* Python strings whose characters matter (titles, keys, raw values) are   *)
(* sequences of one-character strings, so that lower(), replace(),         *)
(* strip() and startswith() are computed character by character.  Vault,   *)
(* item and section identifiers are only ever compared for equality and    *)
(* are plain strings.  Optional[str] is None == <<>> or Some(x) == <<x>>.  *)
(***************************************************************************)
EXTENDS Integers, Sequences, FiniteSets, TLC

---------------------------------------------------------------------------
(* Bounds of the model *)

\* the secret store holds one reference chain of this many references
MaxChain == 11
\* an item has at most this many field records
MaxFields == 2
\* an item has at most this many section records
MaxSections == 2
\* the client lists at most this many vaults, and this many items per vault
MaxListed == 2

---------------------------------------------------------------------------
(* Python str operations *)

UpperChars == <<"A","B","C","D","E","F","G","H","I","J","K","L","M",
                "N","O","P","Q","R","S","T","U","V","W","X","Y","Z">>
LowerChars == <<"a","b","c","d","e","f","g","h","i","j","k","l","m",
                "n","o","p","q","r","s","t","u","v","w","x","y","z">>

lower_char(c) ==
    IF \E i \in 1..Len(UpperChars) : UpperChars[i] = c
    THEN LowerChars[CHOOSE i \in 1..Len(UpperChars) : UpperChars[i] = c]
    ELSE c

\* str.lower()
str_lower(s) == [i \in 1..Len(s) |-> lower_char(s[i])]

\* str.replace(old, new) for one-character old and new
str_replace(s, old, new) == [i \in 1..Len(s) |-> IF s[i] = old THEN new ELSE s[i]]

\* str.startswith(prefix)
str_startswith(s, prefix) ==
    /\ Len(s) >= Len(prefix)
    /\ SubSeq(s, 1, Len(prefix)) = prefix

Whitespace == {" ", "\t", "\n"}

RECURSIVE str_lstrip(_)
str_lstrip(s) ==
    IF s # <<>> /\ Head(s) \in Whitespace THEN str_lstrip(Tail(s)) ELSE s

RECURSIVE str_rstrip(_)
str_rstrip(s) ==
    IF s # <<>> /\ s[Len(s)] \in Whitespace
    THEN str_rstrip(SubSeq(s, 1, Len(s) - 1))
    ELSE s

\* str.strip()
str_strip(s) == str_rstrip(str_lstrip(s))

\* Optional values
None == <<>>
Some(x) == <<x>>

---------------------------------------------------------------------------
(* Hydrated values: a kind tag with a string, a number or member pairs *)

StrVal(s)  == [kind |-> "str",  s |-> s,    n |-> 0, m |-> <<>>]
IntVal(n)  == [kind |-> "int",  s |-> <<>>, n |-> n, m |-> <<>>]
BoolVal(b) == [kind |-> "bool", s |-> <<>>, n |-> IF b THEN 1 ELSE 0, m |-> <<>>]
\* an instance of a schema: its (key, value) pairs in construction order
ModelVal(pairs) == [kind |-> "model", s |-> <<>>, n |-> 0, m |-> pairs]
NoneVal    == [kind |-> "none", s |-> <<>>, n |-> 0, m |-> <<>>]
\* a list: its members in order, as pairs with an empty key
ListVal(elems) ==
    [kind |-> "list", s |-> <<>>, n |-> 0,
     m |-> [i \in 1..Len(elems) |-> [key |-> <<>>, val |-> elems[i]]]]
\* pydantic's "no default declared" sentinel
PydanticUndefined == [kind |-> "undefined", s |-> <<>>, n |-> 0, m |-> <<>>]
\* the outcome of a coercion that raised
Raised(e) == [kind |-> "raised", s |-> e, n |-> 0, m |-> <<>>]

---------------------------------------------------------------------------
(* core.py: pure helpers *)

op_field_name_to_lower_snake_case(name) == str_lower(str_replace(name, "-", "_"))

truthy == { <<"t","r","u","e">>, <<"1">>, <<"y","e","s">>, <<"o","n">> }
trumpy == { <<"f","a","l","s","e">>, <<"0">>, <<"n","o">>, <<"o","f","f">> }

\* a parser that does not trim its argument
parse_bool_unstripped(str_val) ==
    LET val_lower == str_lower(str_val)
    IN  IF val_lower \in truthy THEN BoolVal(TRUE)
        ELSE IF val_lower \in trumpy THEN BoolVal(FALSE)
        ELSE Raised("ValueError")

parse_bool(str_val) ==
    LET val_lower == str_lower(str_strip(str_val))
    IN  IF val_lower \in truthy THEN BoolVal(TRUE)
        ELSE IF val_lower \in trumpy THEN BoolVal(FALSE)
        ELSE Raised("ValueError")

Digits == <<"0","1","2","3","4","5","6","7","8","9">>
IsDigit(c) == \E i \in 1..Len(Digits) : Digits[i] = c
DigitValue(c) == (CHOOSE i \in 1..Len(Digits) : Digits[i] = c) - 1

RECURSIVE DecimalValue(_)
DecimalValue(s) ==
    IF s = <<>> THEN 0
    ELSE 10 * DecimalValue(SubSeq(s, 1, Len(s) - 1)) + DigitValue(s[Len(s)])

\* int(str_val): surrounding whitespace is ignored, an optional sign, then
\* decimal digits; anything else raises ValueError
parse_int(str_val) ==
    LET t      == str_strip(str_val)
        signed == t # <<>> /\ Head(t) \in {"+", "-"}
        body   == IF signed THEN Tail(t) ELSE t
    IN  IF body # <<>> /\ \A i \in 1..Len(body) : IsDigit(body[i])
        THEN IntVal(IF signed /\ Head(t) = "-" THEN 0 - DecimalValue(body)
                    ELSE DecimalValue(body))
        ELSE Raised("ValueError")

\* str.split(sep) for a one-character sep
RECURSIVE str_split(_, _)
str_split(s, sep) ==
    IF \E i \in 1..Len(s) : s[i] = sep
    THEN LET i == CHOOSE j \in 1..Len(s) :
                    s[j] = sep /\ \A k \in 1..(j - 1) : s[k] # sep
         IN  << SubSeq(s, 1, i - 1) >> \o str_split(SubSeq(s, i + 1, Len(s)), sep)
    ELSE << s >>

\* a JSON integer: an optional minus, then 0 or digits without leading zero
IsJsonInt(t) ==
    LET body == IF t # <<>> /\ Head(t) = "-" THEN Tail(t) ELSE t
    IN  /\ body # <<>>
        /\ \A i \in 1..Len(body) : IsDigit(body[i])
        /\ (Len(body) > 1 => body[1] # "0")

\* json.loads of a text without brackets: a literal or an integer
json_scalar(text) ==
    LET t == str_strip(text)
    IN  IF t = <<"t","r","u","e">> THEN BoolVal(TRUE)
        ELSE IF t = <<"f","a","l","s","e">> THEN BoolVal(FALSE)
        ELSE IF t = <<"n","u","l","l">> THEN NoneVal
        ELSE IF IsJsonInt(t)
        THEN IntVal(IF Head(t) = "-" THEN 0 - DecimalValue(Tail(t))
                    ELSE DecimalValue(t))
        ELSE Raised("JSONDecodeError")

\* json.loads for texts without quotes and braces and without arrays inside
\* arrays: a scalar, or an array of scalars; whitespace is allowed around
\* every token
json_loads(str_val) ==
    LET t == str_strip(str_val)
    IN  IF t # <<>> /\ Head(t) = "["
        THEN IF Len(t) < 2 \/ t[Len(t)] # "]" THEN Raised("JSONDecodeError")
             ELSE LET inner == SubSeq(t, 2, Len(t) - 1)
                      parts == str_split(inner, ",")
                      elems == [i \in 1..Len(parts) |-> json_scalar(parts[i])]
                  IN  IF str_strip(inner) = <<>> THEN ListVal(<<>>)
                      ELSE IF \E i \in 1..Len(elems) : elems[i].kind = "raised"
                      THEN Raised("JSONDecodeError")
                      ELSE ListVal(elems)
        ELSE json_scalar(t)

\* list(loads(str_val)): only an array is iterable
to_list(loaded) ==
    IF loaded.kind \in {"raised", "list"} THEN loaded ELSE Raised("TypeError")

\* the type dispatch of _hydrate_field on the resolved string
coerce(cls, str_val) ==
    IF cls = "list" THEN to_list(json_loads(str_val))
    ELSE IF cls = "bool" THEN parse_bool(str_val)
    ELSE IF cls = "int" THEN parse_int(str_val)
    ELSE StrVal(str_val)

\* a matcher that forgets the section
field_matcher_any_section(field, title, section_id) ==
    op_field_name_to_lower_snake_case(field.title) = title

field_matcher(field, title, section_id) ==
    LET normalized_title == op_field_name_to_lower_snake_case(field.title)
    IN  /\ normalized_title = title
        /\ (section_id = None \/ field.section_id = section_id)

\* a lookup that returns the last field the matcher accepts
last_match(wet_fields, title, section_id) ==
    LET hits == { i \in 1..Len(wet_fields) :
                    field_matcher(wet_fields[i], title, section_id) }
    IN  IF hits = {} THEN 0
        ELSE CHOOSE i \in hits : \A j \in hits : j <= i

\* next(filter(matcher, wet_fields)): the position of the first field the
\* matcher accepts, 0 when the iterator is exhausted (StopIteration)
first_match(wet_fields, title, section_id) ==
    LET hits == { i \in 1..Len(wet_fields) :
                    field_matcher(wet_fields[i], title, section_id) }
    IN  IF hits = {} THEN 0
        ELSE CHOOSE i \in hits : \A j \in hits : i <= j

\* the dict comprehension of _get_sections: the keys of the mapping
section_keys(sections) ==
    { str_lower(sections[i].title) : i \in { j \in 1..Len(sections) : sections[j].title # <<>> } }

\* an index that takes in the sections without title too
get_sections_untitled(sections) ==
    [ k \in { str_lower(sections[i].title) : i \in 1..Len(sections) } |->
        LET idx == { i \in 1..Len(sections) : str_lower(sections[i].title) = k }
        IN  sections[CHOOSE i \in idx : \A j \in idx : j <= i].id ]

\* the dict comprehension of _get_sections: a later section overwrites an
\* earlier one with the same key
get_sections(sections) ==
    [ k \in section_keys(sections) |->
        LET idx == { i \in 1..Len(sections) :
                       sections[i].title # <<>> /\ str_lower(sections[i].title) = k }
        IN  sections[CHOOSE i \in idx : \A j \in idx : j <= i].id ]

---------------------------------------------------------------------------
(* The inputs: schemas, items, and the state of the 1Password client *)

OpPrefix == <<"o","p",":","/","/">>

RECURSIVE DecimalString(_)
DecimalString(n) ==
    IF n < 10 THEN <<Digits[n + 1]>>
    ELSE DecimalString(n \div 10) \o <<Digits[(n % 10) + 1]>>

\* the i-th reference of the secret store's chain
Ref(i) == OpPrefix \o <<"r">> \o DecimalString(i)

s_yes == <<"y","e","s">>
s_30  == <<"3","0">>

\* raw strings that are no references, some of them nearly one
PlainValues == { s_yes, s_30, <<>>, <<"o","p",":","/">>, <<" ">> \o OpPrefix,
                 <<"O","P",":","/","/">> }

\* a reference the secret store does not know
UnknownRef == OpPrefix \o <<"?">>

\* what the last reference of the chain resolves to
ChainEnds == { s_yes, s_30, Ref(1) }

\* a reference to a number
NumRef == OpPrefix \o <<"n">>

\* a reference to itself
SelfRef == OpPrefix \o <<"s">>

\* client.secrets: Ref(1) -> Ref(2) -> ... -> Ref(MaxChain) -> end,
\* NumRef -> "30", and SelfRef -> SelfRef
SecretStore(end) ==
    [ l \in { Ref(i) : i \in 1..MaxChain } \cup {NumRef, SelfRef} |->
        IF l = NumRef THEN s_30
        ELSE IF l = SelfRef THEN SelfRef
        ELSE LET i == CHOOSE j \in 1..MaxChain : Ref(j) = l
             IN  IF i < MaxChain THEN Ref(i + 1) ELSE end ]

Field(key, cls, sub, default) ==
    [key |-> key, cls |-> cls, sub |-> sub, default |-> default]

\* schema.model_fields of each schema class, in declaration order; cls is
\* the annotation: a leaf type, "model" for a BaseModel subclass (sub names
\* it), or "none" for a missing annotation
model_fields(schema) ==
    CASE schema = "SectionConfig" ->
           << Field(<<"d">>, "bool", "", PydanticUndefined),
              Field(<<"t","_","o">>, "int", "", IntVal(5)) >>
      [] schema = "ComplexConfig" ->
           << Field(<<"d">>, "str", "", StrVal(<<>>)),
              Field(<<"c","f">>, "model", "SectionConfig", PydanticUndefined),
              Field(<<"T","_","O">>, "int", "", PydanticUndefined) >>
      [] schema = "DefaultedConfig" ->
           << Field(<<"n">>, "none", "", IntVal(0)),
              Field(<<"c","_","f">>, "model", "SectionConfig", ModelVal(<<>>)) >>
      [] schema = "TagsConfig" ->
           << Field(<<"d">>, "bool", "", BoolVal(FALSE)),
              Field(<<"t","_","o">>, "list", "", ListVal(<<>>)),
              Field(<<"n">>, "int", "", IntVal(7)) >>
      [] schema = "DeepConfig" ->
           << Field(<<"C","F">>, "model", "MidConfig", PydanticUndefined) >>
      [] schema = "MidConfig" ->
           << Field(<<"t","_","o">>, "int", "", PydanticUndefined),
              Field(<<"c","_","f">>, "model", "SectionConfig", PydanticUndefined) >>

RootSchemas == { "SectionConfig", "ComplexConfig", "DefaultedConfig", "DeepConfig",
                 "TagsConfig" }

SectionIds == { "S", "T" }

FieldTitles == { <<"D">>, <<"t","-","o">> }
FieldValues == { s_yes, s_30, NumRef }
FieldRecs ==
    [ title : FieldTitles, value : FieldValues,
      section_id : {None} \cup { Some(x) : x \in SectionIds } ]

SectionTitles == { <<"C","f">>, <<"c","-","f">>, <<"C","_","f">>, <<>> }
SectionRecs == [ id : SectionIds, title : SectionTitles ]

SeqsUpTo(S, n) == UNION { [1..k -> S] : k \in 0..n }

ItemRec(fields, sections) == [fields |-> fields, sections |-> sections]

\* the item of the nested-sections tests: one top-level field, two fields
\* in section S titled "Cf"
StdSections == << [id |-> "S", title |-> <<"C","f">>],
                  [id |-> "T", title |-> <<"C","_","f">>] >>
StdFields == << [title |-> <<"D">>, value |-> s_yes, section_id |-> Some("S")],
                [title |-> <<"t","-","o">>, value |-> s_30, section_id |-> Some("S")],
                [title |-> <<"T","-","O">>, value |-> s_30, section_id |-> None] >>

\* an item whose three fields are all outside every section
TopFields == << [title |-> <<"D">>, value |-> s_yes, section_id |-> None],
                [title |-> <<"t","-","o">>, value |-> s_30, section_id |-> None],
                [title |-> <<"N">>, value |-> s_30, section_id |-> None] >>

s_list  == <<"[","1",","," ","2","]">>
s_open  == <<"[","1",",">>
s_maybe == <<"m","a","y","b","e">>

\* raw field values for the coercions: booleans in several spellings, an
\* integer, a JSON array, a truncated JSON array, and a word that is neither
CoerceValues == { s_yes, <<" ","O","n"," ">>, <<"O","f","f">>, <<"0">>, s_30,
                  s_list, s_open, s_maybe }

\* the arguments of a direct _parse_bool call: the words of both
\* vocabularies in several spellings, and words of neither, each with and
\* without blanks around it
BoolWords ==
    { <<"t","r","u","e">>, <<"T","r","u","e">>, <<"T","R","U","E">>, <<"1">>,
      <<"y","e","s">>, <<"Y","E","S">>, <<"o","n">>, <<"O","N">>, <<"O","n">>,
      <<"f","a","l","s","e">>, <<"F","a","l","s","e">>, <<"F","A","L","S","E">>,
      <<"0">>, <<"n","o">>, <<"N","O">>, <<"o","f","f">>, <<"O","F","F">>,
      <<"O","f","f">>,
      <<"i","n","v","a","l","i","d">>, s_maybe, <<>>, <<"2">>, <<"y">>, <<"t">>,
      <<"t","r","u","e","e">>, <<"y","e"," ","s">>, <<"1","0">>, <<"0","1">>,
      <<"-","1">>, <<"n","o","n","e">>, <<"o","n","o","f","f">>,
      <<"y","e","s","n","o">> }
Blanks == { <<>>, <<" ">>, <<"\t">>, <<" ","\n">> }
BoolTexts == { l \o w \o r : l \in Blanks, w \in BoolWords, r \in Blanks }

\* the reference from which the chain has k references left
RefOfLength(k) == Ref(MaxChain - k + 1)

\* raw field values of the items whose values are references
LinkValues == { s_yes, NumRef, RefOfLength(1), RefOfLength(2), RefOfLength(9),
                RefOfLength(MaxChain) }

\* the field list with its values replaced, position by position
WithValues(fields, v) ==
    [ i \in 1..Len(fields) |-> [fields[i] EXCEPT !.value = v[i]] ]

\* models.py: the four sources pydantic-settings hands to
\* settings_customise_sources, and two settings of PostgresConfig with their
\* declared defaults
SourceNames == { "init", "env", "dotenv", "file_secret" }
SettingNames == << <<"P","G","H","O","S","T">>, <<"P","G","U","S","E","R">> >>
SettingDefault(k) ==
    IF k = 1 THEN StrVal(<<"l","o","c","a","l","h","o","s","t">>)
    ELSE StrVal(<<"p","o","s","t","g","r","e","s">>)

\* the value a source gives a setting it defines: the source's own
SourceValue(src) ==
    CASE src = "init" -> <<"k","w","a","r","g">>
      [] src = "env" -> <<"e","n","v">>
      [] src = "dotenv" -> <<"d","o","t","e","n","v">>
      [] src = "file_secret" -> <<"s","e","c","r","e","t">>

\* every way the sources can define the settings or leave them out
SourceStates ==
    { [ src \in SourceNames |->
          [ k \in 1..Len(SettingNames) |->
              IF defined[src][k] THEN Some(SourceValue(src)) ELSE None ] ] :
        defined \in [SourceNames -> [1..Len(SettingNames) -> BOOLEAN]] }
NoSources == [ src \in SourceNames |-> [ k \in 1..Len(SettingNames) |-> None ] ]

\* CONFIGATOR_DEV_MODE: unset, empty, and non-empty values, among them the
\* ones that read as a refusal
DevModeValues ==
    { None, Some(<<>>), Some(<<"1">>), Some(<<"0">>), Some(<<" ">>),
      Some(<<"f","a","l","s","e">>), Some(<<"S","U","D","O">>) }

VaultRecs == [ id : {"v1", "v2"}, title : {"V", "W"} ]
ItemOverviewRecs == [ id : {"i1", "i2"}, title : {"I", "J"} ]

---------------------------------------------------------------------------
(* State *)

VARIABLES
    entry,          \* the function that was called: "load_config",
                    \* "hydrate_model" or "resolve_op_link"
    pc,             \* where the call stands
    op_vaults,      \* client: what vaults.list() returns
    op_items,       \* client: what items.list(vault_id) returns
    op_item,        \* client: the fields and sections items.get() returns
    secrets,        \* client: what secrets.resolve(link) returns, by link
    schema,         \* the schema argument
    vault_overview, \* load_config's local, None until found
    item_overview,  \* load_config's local, None until found
    item,           \* the Item being hydrated
    stack,          \* the active _hydrate_model calls, innermost last
    hit,            \* the position in item.fields the matcher selected
    raw,            \* the string _resolve_op_link was last called with
    link,           \* _resolve_op_link's local
    moria_level,    \* _resolve_op_link's hop counter
    calls,          \* every client call made so far, in order
    environ,        \* os.environ: the value of CONFIGATOR_DEV_MODE, None
                    \* when it is not set
    sources,        \* what each settings source defines, by source and name
    order,          \* the tuple settings_customise_sources returned
    ret,            \* the value returned to the caller, None until then
    err             \* the exception that left the call, "" while none

vars == << entry, pc, op_vaults, op_items, op_item, secrets, schema,
           vault_overview, item_overview, item, stack, hit, raw,
           link, moria_level, calls, environ, sources, order, ret, err >>

settings == << environ, sources, order >>

client == << op_vaults, op_items, op_item, secrets >>

\* the vault and item names every load_config call of the model asks for
VaultName == "V"
ItemName == "I"

\* one entry of the call log: the client operation, its arguments, and for
\* a call made while hydrating a field the field's position (path)
Call(op, l, v, i) ==
    [op |-> op, link |-> l, vault_id |-> v, item_id |-> i, path |-> <<>>]

\* an activation that was not handed the section_id
Frame_unscoped(sch, section_id) ==
    [schema |-> sch, section_id |-> None, idx |-> 1, wet |-> <<>>]

\* one activation of _hydrate_model: its schema and section_id arguments,
\* the position of the loop over dry_model, and wet_model so far
Frame(sch, section_id) ==
    [schema |-> sch, section_id |-> section_id, idx |-> 1, wet |-> <<>>]

NoItem == ItemRec(<<>>, <<>>)

---------------------------------------------------------------------------
(* Initial states: one family per function the callers and tests call *)

NoSettings ==
    /\ environ = None
    /\ sources = NoSources
    /\ order = <<>>

Locals ==
    /\ vault_overview = None
    /\ item_overview = None
    /\ hit = 0
    /\ moria_level = 0
    /\ calls = <<>>
    /\ ret = None
    /\ err = ""

\* load_config(token, vault, item, schema) against any vault and item
\* listing; the item behind every listed id is the standard item
InitLoadConfig ==
    /\ entry = "load_config"
    /\ pc = "get_client"
    /\ op_vaults \in SeqsUpTo(VaultRecs, MaxListed)
    /\ op_items \in SeqsUpTo(ItemOverviewRecs, MaxListed)
    /\ op_item = ItemRec(StdFields, StdSections)
    /\ secrets = SecretStore(s_30)
    /\ schema \in { "ComplexConfig", "SectionConfig" }
    /\ item = NoItem
    /\ stack = <<>>
    /\ raw = <<>>
    /\ link = <<>>
    /\ Locals
    /\ NoSettings

\* _hydrate_model(op_client, schema, item) on any field list, on any section
\* list, on the standard item with references for values, and on an item
\* of top-level fields with the values the coercions tell apart
InitHydrateModel ==
    /\ entry = "hydrate_model"
    /\ pc = "hydrate"
    /\ op_vaults = <<>>
    /\ op_items = <<>>
    /\ \/ /\ op_item \in { ItemRec(f, StdSections) : f \in SeqsUpTo(FieldRecs, MaxFields) }
          /\ secrets = SecretStore(s_30)
       \/ /\ op_item \in { ItemRec(StdFields, s) : s \in SeqsUpTo(SectionRecs, MaxSections) }
          /\ secrets = SecretStore(s_30)
       \/ /\ op_item \in { ItemRec(WithValues(StdFields, v), StdSections) :
                             v \in [1..Len(StdFields) -> LinkValues] }
          /\ secrets \in { SecretStore(e) : e \in ChainEnds }
       \/ /\ op_item \in { ItemRec(WithValues(TopFields, v), StdSections) :
                             v \in [1..Len(TopFields) ->
                                     CoerceValues \cup {NumRef, RefOfLength(MaxChain)}] }
          /\ secrets = SecretStore(s_open)
    /\ schema \in RootSchemas
    /\ item = op_item
    /\ stack = << Frame(schema, None) >>
    /\ raw = <<>>
    /\ link = <<>>
    /\ Locals
    /\ NoSettings

\* _resolve_op_link(op_client, link) on a plain string or on any reference
\* of the chain, whatever the chain ends in
InitResolveOpLink ==
    /\ entry = "resolve_op_link"
    /\ pc = "resolve"
    /\ op_vaults = <<>>
    /\ op_items = <<>>
    /\ op_item = NoItem
    /\ secrets \in { SecretStore(e) : e \in ChainEnds }
    /\ schema = ""
    /\ item = NoItem
    /\ stack = <<>>
    /\ raw \in PlainValues \cup DOMAIN secrets \cup {UnknownRef}
    /\ link = raw
    /\ Locals
    /\ NoSettings

\* _parse_bool(str_val) on any of the texts
InitParseBool ==
    /\ entry = "parse_bool"
    /\ pc = "parse_bool"
    /\ op_vaults = <<>>
    /\ op_items = <<>>
    /\ op_item = NoItem
    /\ secrets = SecretStore(s_30)
    /\ schema = ""
    /\ item = NoItem
    /\ stack = <<>>
    /\ raw \in BoolTexts
    /\ link = <<>>
    /\ Locals
    /\ NoSettings

\* PostgresConfig(**kwargs) under any environment and any sources
InitSettings ==
    /\ entry = "settings"
    /\ pc = "customise_sources"
    /\ op_vaults = <<>>
    /\ op_items = <<>>
    /\ op_item = NoItem
    /\ secrets = SecretStore(s_30)
    /\ schema = "PostgresConfig"
    /\ item = NoItem
    /\ stack = <<>>
    /\ raw = <<>>
    /\ link = <<>>
    /\ Locals
    /\ environ \in DevModeValues
    /\ sources \in SourceStates
    /\ order = <<>>

Init ==
    \/ InitLoadConfig
    \/ InitHydrateModel
    \/ InitResolveOpLink
    \/ InitParseBool
    \/ InitSettings

---------------------------------------------------------------------------
(* Actions *)

Fail(e) ==
    /\ pc' = "failed"
    /\ err' = e

\* the for loop of _get_vault_overview and of _get_item_overview: the first
\* listed record with exactly this title, None when there is none
first_titled(listed, name) ==
    LET idx == { i \in 1..Len(listed) : listed[i].title = name }
    IN  IF idx = {} THEN None
        ELSE Some(listed[CHOOSE i \in idx : \A j \in idx : i <= j])

\* a vault lookup that settles for the first vault listed
get_vault_overview_any(available_vaults, vault_name) ==
    IF first_titled(available_vaults, vault_name) # None
    THEN first_titled(available_vaults, vault_name)
    ELSE IF available_vaults # <<>> THEN Some(available_vaults[1]) ELSE None

get_vault_overview(available_vaults, vault_name) ==
    first_titled(available_vaults, vault_name)

\* an item lookup that returns the last listed item of that title
get_item_overview_last(available_items, item_name) ==
    LET idx == { i \in 1..Len(available_items) : available_items[i].title = item_name }
    IN  IF idx = {} THEN None
        ELSE Some(available_items[CHOOSE i \in idx : \A j \in idx : j <= i])

get_item_overview(available_items, item_name) ==
    first_titled(available_items, item_name)

\* a lookup that answers a missing key with an empty id, as dict.get would
section_lookup_lenient(sections, key) ==
    IF str_lower(key) \in DOMAIN sections
    THEN Some(sections[str_lower(key)])
    ELSE Some("")

\* sections[key.lower()]: the section id, None for the KeyError
section_lookup(sections, key) ==
    IF str_lower(key) \in DOMAIN sections
    THEN Some(sections[str_lower(key)])
    ELSE None

\* a test that takes every default for a declared one
is_undefined_never(default) == FALSE

\* a test that takes an empty-string default for no default
is_undefined_or_empty(default) ==
    default = PydanticUndefined \/ default = StrVal(<<>>)

\* default is PydanticUndefined
is_undefined(default) == default = PydanticUndefined

\* a test for the prefix that ignores leading blanks and case
is_op_link_lenient(l) == str_startswith(str_lower(str_strip(l)), OpPrefix)

\* link.startswith("op://")
is_op_link(l) == str_startswith(l, OpPrefix)

\* a guard that trips one hop early
too_deep_at_nine(level) == level >= 9

\* a guard that trips two hops late
too_deep_at_twelve(level) == level > 11

\* moria_level > 9
too_deep(level) == level > 9

\* op_client.secrets.resolve(link): the secret, None when the client raises
\* because the reference names nothing
secrets_resolve(store, l) ==
    IF l \in DOMAIN store THEN Some(store[l]) ELSE None

\* load_config: client = await _get_client(token)
GetClient ==
    /\ pc = "get_client"
    /\ calls' = Append(calls, Call("authenticate", <<>>, "", ""))
    /\ pc' = "get_vault_overview"
    /\ UNCHANGED << entry, settings, client, schema, vault_overview, item_overview, item,
                    stack, hit, raw, link, moria_level, ret, err >>

\* load_config: _get_vault_overview and the check of its result
GetVaultOverview ==
    /\ pc = "get_vault_overview"
    /\ calls' = Append(calls, Call("vaults.list", <<>>, "", ""))
    /\ vault_overview' = get_vault_overview(op_vaults, VaultName)
    /\ IF vault_overview' = None
       THEN Fail("vault not found")
       ELSE pc' = "get_item_overview" /\ err' = err
    /\ UNCHANGED << entry, settings, client, schema, item_overview, item, stack, hit,
                    raw, link, moria_level, ret >>

\* load_config: _get_item_overview and the check of its result
GetItemOverview ==
    /\ pc = "get_item_overview"
    /\ calls' = Append(calls, Call("items.list", <<>>, vault_overview[1].id, ""))
    /\ item_overview' = get_item_overview(op_items, ItemName)
    /\ IF item_overview' = None
       THEN Fail("item not found")
       ELSE pc' = "get_item" /\ err' = err
    /\ UNCHANGED << entry, settings, client, schema, vault_overview, item, stack, hit,
                    raw, link, moria_level, ret >>

\* load_config: client.items.get, then the call of _hydrate_model with no
\* section_id
GetItem ==
    /\ pc = "get_item"
    /\ calls' = Append(calls, Call("items.get", <<>>, vault_overview[1].id,
                                   item_overview[1].id))
    /\ item' = op_item
    /\ stack' = << Frame(schema, None) >>
    /\ pc' = "hydrate"
    /\ UNCHANGED << entry, settings, client, schema, vault_overview, item_overview, hit,
                    raw, link, moria_level, ret, err >>

\* the innermost _hydrate_model call and the field its loop stands at
Top == stack[Len(stack)]
DryModel == model_fields(Top.schema)
AtField == pc = "hydrate" /\ stack # <<>> /\ Top.idx <= Len(DryModel)
Cur == DryModel[Top.idx]

\* the position of the field being hydrated: its index in the root schema,
\* then in each nested schema down to the innermost
FieldPath == [ i \in 1..Len(stack) |-> stack[i].idx ]

\* a loop that passes over the field after the one it stored
Stored_skipping(frame, key, value) ==
    [frame EXCEPT !.wet = Append(@, [key |-> key, val |-> value]),
                  !.idx = @ + 2]

\* wet_model[key] = value, and the loop moves on
Stored(frame, key, value) ==
    [frame EXCEPT !.wet = Append(@, [key |-> key, val |-> value]),
                  !.idx = @ + 1]

SetTop(frame) == [stack EXCEPT ![Len(stack)] = frame]

\* _hydrate_model: a field without annotation is skipped
HydrateSkip ==
    /\ AtField
    /\ Cur.cls = "none"
    /\ stack' = SetTop([Top EXCEPT !.idx = @ + 1])
    /\ UNCHANGED << entry, settings, pc, client, schema, vault_overview, item_overview,
                    item, hit, raw, link, moria_level, calls, ret, err >>

\* _hydrate_field, BaseModel branch: the section index is built and
\* subscripted with the lowercased key; _hydrate_model is entered with the
\* section's id
HydrateNested ==
    /\ AtField
    /\ Cur.cls = "model"
    /\ LET sections == get_sections(item.sections)
           found == section_lookup(sections, Cur.key)
       IN  IF found # None
           THEN /\ stack' = Append(stack, Frame(Cur.sub, found))
                /\ UNCHANGED << pc, err >>
           ELSE /\ Fail("KeyError")
                /\ UNCHANGED stack
    /\ UNCHANGED << entry, settings, client, schema, vault_overview, item_overview,
                    item, hit, raw, link, moria_level, calls, ret >>

\* a resolver whose hop counter is kept from one field to the next
HydrateLeaf_shared_counter ==
    /\ AtField
    /\ Cur.cls \notin {"none", "model"}
    /\ LET i == first_match(item.fields, str_lower(Cur.key), Top.section_id)
       IN  /\ hit' = i
           /\ IF i # 0
              THEN /\ raw' = item.fields[i].value
                   /\ link' = raw'
                   /\ pc' = "resolve"
                   /\ UNCHANGED << stack, err, moria_level >>
              ELSE IF is_undefined(Cur.default)
              THEN /\ Fail("StopIteration")
                   /\ UNCHANGED << stack, raw, link, moria_level >>
              ELSE /\ stack' = SetTop(Stored(Top, Cur.key, Cur.default))
                   /\ UNCHANGED << pc, err, raw, link, moria_level >>
    /\ UNCHANGED << entry, settings, client, schema, vault_overview, item_overview,
                    item, calls, ret >>

\* _hydrate_field, leaf branch up to the call of _resolve_op_link: the
\* first matching field's value goes to the resolver; with no match the
\* default is returned, or StopIteration leaves the coroutine
HydrateLeaf ==
    /\ AtField
    /\ Cur.cls \notin {"none", "model"}
    /\ LET i == first_match(item.fields, str_lower(Cur.key), Top.section_id)
       IN  /\ hit' = i
           /\ IF i # 0
              THEN /\ raw' = item.fields[i].value
                   /\ link' = raw'
                   /\ moria_level' = 0
                   /\ pc' = "resolve"
                   /\ UNCHANGED << stack, err >>
              ELSE IF is_undefined(Cur.default)
              THEN /\ Fail("StopIteration")
                   /\ UNCHANGED << stack, raw, link, moria_level >>
              ELSE /\ stack' = SetTop(Stored(Top, Cur.key, Cur.default))
                   /\ UNCHANGED << pc, err, raw, link, moria_level >>
    /\ UNCHANGED << entry, settings, client, schema, vault_overview, item_overview,
                    item, calls, ret >>

\* _resolve_op_link: one iteration of the while loop; an exception of the
\* client leaves the loop before the counter moves
ResolveHop ==
    /\ pc = "resolve"
    /\ is_op_link(link)
    /\ calls' = Append(calls, [Call("secrets.resolve", link, "", "")
                                 EXCEPT !.path = FieldPath])
    /\ LET got == secrets_resolve(secrets, link)
       IN  IF got = None
           THEN /\ Fail("client error")
                /\ UNCHANGED << link, moria_level >>
           ELSE /\ link' = got[1]
                /\ moria_level' = moria_level + 1
                /\ IF too_deep(moria_level')
                   THEN Fail("too deep")
                   ELSE UNCHANGED << pc, err >>
    /\ UNCHANGED << entry, settings, client, schema, vault_overview, item_overview,
                    item, stack, hit, raw, ret >>

\* _resolve_op_link called directly: the loop ends and link is returned
ResolveReturn ==
    /\ pc = "resolve"
    /\ stack = <<>>
    /\ ~ is_op_link(link)
    /\ ret' = Some(StrVal(link))
    /\ pc' = "done"
    /\ UNCHANGED << entry, settings, client, schema, vault_overview, item_overview,
                    item, stack, hit, raw, link, moria_level, calls, err >>

\* a conversion whose failure is answered with the field's declared default
CoerceField_defaulting ==
    /\ pc = "resolve"
    /\ stack # <<>>
    /\ ~ is_op_link(link)
    /\ LET ret_val == coerce(DryModel[Top.idx].cls, link)
           dflt == DryModel[Top.idx].default
       IN  IF ret_val.kind = "raised" /\ dflt = PydanticUndefined
           THEN /\ Fail(ret_val.s)
                /\ UNCHANGED stack
           ELSE /\ stack' = SetTop(Stored(Top, DryModel[Top.idx].key,
                                          IF ret_val.kind = "raised" THEN dflt
                                          ELSE ret_val))
                /\ pc' = "hydrate"
                /\ UNCHANGED err
    /\ UNCHANGED << entry, settings, client, schema, vault_overview, item_overview,
                    item, hit, raw, link, moria_level, calls, ret >>

\* a conversion of the field's raw value instead of the resolved string
CoerceField_unresolved ==
    /\ pc = "resolve"
    /\ stack # <<>>
    /\ ~ is_op_link(link)
    /\ LET ret_val == coerce(DryModel[Top.idx].cls, raw)
       IN  IF ret_val.kind = "raised"
           THEN /\ Fail(ret_val.s)
                /\ UNCHANGED stack
           ELSE /\ stack' = SetTop(Stored(Top, DryModel[Top.idx].key, ret_val))
                /\ pc' = "hydrate"
                /\ UNCHANGED err
    /\ UNCHANGED << entry, settings, client, schema, vault_overview, item_overview,
                    item, hit, raw, link, moria_level, calls, ret >>

\* _hydrate_field, leaf branch after _resolve_op_link returned: the string
\* is converted to the declared type and becomes the field's value
CoerceField ==
    /\ pc = "resolve"
    /\ stack # <<>>
    /\ ~ is_op_link(link)
    /\ LET ret_val == coerce(DryModel[Top.idx].cls, link)
       IN  IF ret_val.kind = "raised"
           THEN /\ Fail(ret_val.s)
                /\ UNCHANGED stack
           ELSE /\ stack' = SetTop(Stored(Top, DryModel[Top.idx].key, ret_val))
                /\ pc' = "hydrate"
                /\ UNCHANGED err
    /\ UNCHANGED << entry, settings, client, schema, vault_overview, item_overview,
                    item, hit, raw, link, moria_level, calls, ret >>

\* a constructor that leaves out the fields it was not given
construct_partial(sch, wet_model) ==
    ModelVal(wet_model)

\* _parse_bool called directly: the value is returned or ValueError raised
ParseBool ==
    /\ pc = "parse_bool"
    /\ LET ret_val == parse_bool(raw)
       IN  IF ret_val.kind = "raised"
           THEN /\ Fail(ret_val.s)
                /\ UNCHANGED ret
           ELSE /\ ret' = Some(ret_val)
                /\ pc' = "done"
                /\ UNCHANGED err
    /\ UNCHANGED << entry, settings, client, schema, vault_overview, item_overview,
                    item, stack, hit, raw, link, moria_level, calls >>

\* a hook that keeps the normal loading priority whatever the environment
settings_customise_sources_normal(dev_mode) ==
    << "init", "env", "dotenv", "file_secret" >>

\* ConfigatorSettings.settings_customise_sources: `if dev_mode:` is the
\* truth value of the string getenv returned, None when the name is not set
settings_customise_sources(dev_mode) ==
    IF dev_mode # None /\ dev_mode[1] # <<>>
    THEN << "dotenv", "env", "init", "file_secret" >>
    ELSE << "init", "env", "dotenv", "file_secret" >>

\* BaseSettings: each setting takes its value from the first source of the
\* tuple that defines it, and its declared default when none does
build_values(srcs, tuple) ==
    ModelVal([ k \in 1..Len(SettingNames) |->
        LET defining == { i \in 1..Len(tuple) : srcs[tuple[i]][k] # None }
        IN  [key |-> SettingNames[k],
             val |-> IF defining = {} THEN SettingDefault(k)
                     ELSE StrVal(srcs[tuple[CHOOSE i \in defining :
                                              \A j \in defining : i <= j]][k][1])] ])

\* the settings class is instantiated: pydantic-settings calls the hook
CustomiseSources ==
    /\ pc = "customise_sources"
    /\ order' = settings_customise_sources(environ)
    /\ pc' = "build_values"
    /\ UNCHANGED << entry, environ, sources, client, schema, vault_overview,
                    item_overview, item, stack, hit, raw, link, moria_level,
                    calls, ret, err >>

\* the settings class is instantiated: the sources are read in the order
\* the hook returned
BuildValues ==
    /\ pc = "build_values"
    /\ ret' = Some(build_values(sources, order))
    /\ pc' = "done"
    /\ UNCHANGED << entry, settings, client, schema, vault_overview,
                    item_overview, item, stack, hit, raw, link, moria_level,
                    calls, err >>

\* schema(**wet_model): every declared field takes its value from wet_model,
\* a field left out takes its default, and a required field left out is a
\* validation error
construct(sch, wet_model) ==
    LET dry == model_fields(sch)
        given(k) == \E i \in 1..Len(wet_model) : wet_model[i].key = k
        value(k) == wet_model[CHOOSE i \in 1..Len(wet_model) : wet_model[i].key = k].val
    IN  IF \E i \in 1..Len(dry) : ~ given(dry[i].key) /\ dry[i].default = PydanticUndefined
        THEN Raised("ValidationError")
        ELSE ModelVal([ i \in 1..Len(dry) |->
                          [key |-> dry[i].key,
                           val |-> IF given(dry[i].key) THEN value(dry[i].key)
                                   ELSE dry[i].default] ])

\* _hydrate_model: the loop is over, the schema is instantiated and
\* returned, to the _hydrate_field of the enclosing model or to the caller
ReturnModel ==
    /\ pc = "hydrate"
    /\ stack # <<>>
    /\ Top.idx > Len(DryModel)
    /\ LET made == construct(Top.schema, Top.wet)
           rest == SubSeq(stack, 1, Len(stack) - 1)
       IN  IF made.kind = "raised"
           THEN /\ Fail(made.s)
                /\ UNCHANGED << stack, ret >>
           ELSE IF rest = <<>>
           THEN /\ ret' = Some(made)
                /\ stack' = rest
                /\ pc' = "done"
                /\ UNCHANGED err
           ELSE LET outer == rest[Len(rest)]
                    key == model_fields(outer.schema)[outer.idx].key
                IN  /\ stack' = [rest EXCEPT ![Len(rest)] = Stored(outer, key, made)]
                    /\ UNCHANGED << pc, ret, err >>
    /\ UNCHANGED << entry, settings, client, schema, vault_overview, item_overview,
                    item, hit, raw, link, moria_level, calls >>

Next ==
    \/ GetClient
    \/ GetVaultOverview
    \/ GetItemOverview
    \/ GetItem
    \/ HydrateSkip
    \/ HydrateNested
    \/ HydrateLeaf
    \/ ResolveHop
    \/ ResolveReturn
    \/ CoerceField
    \/ ReturnModel
    \/ ParseBool
    \/ CustomiseSources
    \/ BuildValues

Spec == Init /\ [][Next]_vars

\* a direct call of _resolve_op_link alone
ResolveNext == ResolveHop \/ ResolveReturn

\* the event loop runs the one coroutine there is: while the resolver can
\* take a step it takes it, every awaited client call being answered
ResolveSpec == InitResolveOpLink /\ [][ResolveNext]_vars /\ WF_vars(ResolveNext)

---------------------------------------------------------------------------
(* Properties *)

Terminated == pc \in {"done", "failed"}
LeafLookedUp == pc = "resolve" /\ stack # <<>>
Normalized(name) == str_lower(str_replace(name, "-", "_"))

\* C1: at top level (no section scope) the field the hydrator selects for a
\* leaf has no section_id: a field that lives inside a section is never
\* selected for a top-level schema field.
C1_TopLevelSelectsUnsectioned ==
    (LeafLookedUp /\ Top.section_id = None)
        => item.fields[hit].section_id = None

\* C2: under a section scope S the matcher accepts a field only if its
\* normalized title is the key and its section_id is S, so the field the
\* hydrator selects is one of section S with that title.
C2_ScopedMatchIsExact ==
    /\ (AtField /\ Cur.cls \notin {"none", "model"} /\ Top.section_id # None)
          => \A i \in 1..Len(item.fields) :
                field_matcher(item.fields[i], str_lower(Cur.key), Top.section_id)
                  => /\ Normalized(item.fields[i].title) = str_lower(Cur.key)
                     /\ item.fields[i].section_id = Top.section_id
    /\ (LeafLookedUp /\ Top.section_id # None)
          => /\ Normalized(item.fields[hit].title) = str_lower(Cur.key)
             /\ item.fields[hit].section_id = Top.section_id

\* a scoped lookup that passed over a field of the same title in another
\* section, or in none, and selected the one after it
C2_Witness ==
    /\ LeafLookedUp
    /\ Top.section_id # None
    /\ hit = 2
    /\ Normalized(item.fields[1].title) = str_lower(Cur.key)
    /\ item.fields[1].section_id # Top.section_id

\* the number of references from l on, following the secret store, before a
\* string that is no reference; a chain that does not end within the store
\* counts as longer than the store
RECURSIVE ChainLength(_, _)
ChainLength(l, fuel) ==
    IF ~ str_startswith(l, OpPrefix) THEN 0
    ELSE IF fuel = 0 \/ l \notin DOMAIN secrets THEN 1
    ELSE 1 + ChainLength(secrets[l], fuel - 1)

RECURSIVE ChainEnd(_, _)
ChainEnd(l, fuel) ==
    IF ~ str_startswith(l, OpPrefix) \/ fuel = 0 \/ l \notin DOMAIN secrets THEN l
    ELSE ChainEnd(secrets[l], fuel - 1)

\* every reference of the chain from l on is known to the store
RECURSIVE ChainKnown(_, _)
ChainKnown(l, fuel) ==
    \/ ~ str_startswith(l, OpPrefix)
    \/ fuel = 0
    \/ l \in DOMAIN secrets /\ ChainKnown(secrets[l], fuel - 1)

Fuel == 2 * MaxChain
ResolveCalls == { i \in 1..Len(calls) : calls[i].op = "secrets.resolve" }

\* C3: a direct call of the resolver on a chain of k references returns the
\* chain's final string after exactly k client calls when 1 <= k <= 9, and
\* when k >= 10 it returns nothing and ends in the too-deep error.
C3_ChainBound ==
    (entry = "resolve_op_link" /\ ChainKnown(raw, Fuel)) =>
        LET k == ChainLength(raw, Fuel)
        IN  /\ (k >= 1 /\ k <= 9) =>
                 /\ pc # "failed"
                 /\ Len(calls) <= k
                 /\ pc = "done" =>
                      /\ ret = Some(StrVal(ChainEnd(raw, Fuel)))
                      /\ Cardinality(ResolveCalls) = k
                      /\ Len(calls) = k
            /\ k >= 10 =>
                 /\ ret = None
                 /\ pc # "done"
                 /\ pc = "failed" => err = "too deep"
                 /\ Len(calls) <= 10

\* a chain of exactly nine references resolved
C3_Witness ==
    /\ entry = "resolve_op_link"
    /\ ChainLength(raw, Fuel) = 9
    /\ pc = "done"
    /\ Len(calls) = 9

\* a chain of exactly ten references refused
C3_WitnessTooDeep ==
    /\ entry = "resolve_op_link"
    /\ ChainLength(raw, Fuel) = 10
    /\ ChainKnown(raw, Fuel)
    /\ ~ str_startswith(ChainEnd(raw, Fuel), OpPrefix)
    /\ pc = "failed"

\* C4: a direct call of the resolver on a string that does not start with
\* op:// returns that string and never calls the client.
C4_PlainIsIdentity ==
    (entry = "resolve_op_link" /\ ~ str_startswith(raw, OpPrefix)) =>
        /\ calls = <<>>
        /\ pc # "failed"
        /\ pc = "done" => ret = Some(StrVal(raw))
        /\ pc = "resolve" => link = raw

\* a string that nearly is a reference came back unchanged
C4_Witness ==
    /\ entry = "resolve_op_link"
    /\ raw = <<" ">> \o OpPrefix
    /\ pc = "done"
    /\ ret = Some(StrVal(raw))

IsLeaf(f) == f.cls \notin {"none", "model"}

\* no field of the item qualifies for this key under this scope: none has
\* the key for normalized title inside the section, and with no section
\* scope none has it at all
NoQualifying(key, scope) ==
    ~ \E i \in 1..Len(item.fields) :
          /\ Normalized(item.fields[i].title) = str_lower(key)
          /\ (scope = None \/ item.fields[i].section_id = scope)

C5_WitnessTopLevel ==
    /\ pc = "failed"
    /\ err = "StopIteration"
    /\ Len(stack) = 1
    /\ item.fields # <<>>

\* the record holds the declared default for every defaulted leaf no field
\* qualifies for, nested records included
RECURSIVE DefaultsKept(_, _, _)
DefaultsKept(made, sch, scope) ==
    LET dry == model_fields(sch)
    IN  \A i \in 1..Len(dry) :
          /\ (IsLeaf(dry[i]) /\ dry[i].default # PydanticUndefined
                /\ NoQualifying(dry[i].key, scope))
               => made.m[i] = [key |-> dry[i].key, val |-> dry[i].default]
          /\ dry[i].cls = "model"
               => DefaultsKept(made.m[i].val, dry[i].sub,
                               Some(get_sections(item.sections)[str_lower(dry[i].key)]))

C6_WitnessReturned ==
    /\ pc = "done"
    /\ schema = "SectionConfig"
    /\ NoQualifying(<<"t","_","o">>, None)
    /\ ret[1].m[2].val = IntVal(5)

\* the sections whose title the nested field's name names
SectionsNamed(key) ==
    { i \in 1..Len(item.sections) :
        /\ item.sections[i].title # <<>>
        /\ str_lower(item.sections[i].title) = str_lower(key) }

\* C7: at a field whose type is a nested record, with a section of that name
\* indexed, the hydrator enters the nested schema with scope set to that
\* section's id, whatever the scope of the parent; every leaf of a nested
\* record is taken from a field whose section_id is the record's scope; the
\* item with section "Cf" holding D=yes and t-o=30 yields {d: true, t_o: 30}.
C7_NestedScope ==
    /\ [][ (AtField /\ Cur.cls = "model" /\ SectionsNamed(Cur.key) # {})
           => /\ Len(stack') = Len(stack) + 1
              /\ SubSeq(stack', 1, Len(stack)) = stack
              /\ stack'[Len(stack')].schema = Cur.sub
              /\ stack'[Len(stack')].section_id \in
                    { Some(item.sections[i].id) : i \in SectionsNamed(Cur.key) }
              /\ pc' = "hydrate" ]_vars
    /\ []((LeafLookedUp /\ Len(stack) >= 2)
            => /\ Top.section_id # None
               /\ item.fields[hit].section_id = Top.section_id)
    /\ []((pc = "done" /\ schema = "ComplexConfig"
             /\ item = ItemRec(StdFields, StdSections))
            => ret[1].m[2].val =
                 ModelVal(<< [key |-> <<"d">>, val |-> BoolVal(TRUE)],
                             [key |-> <<"t","_","o">>, val |-> IntVal(30)] >>))

\* the example item was hydrated
C7_Witness ==
    /\ pc = "done"
    /\ schema = "ComplexConfig"
    /\ entry = "hydrate_model"
    /\ item = ItemRec(StdFields, StdSections)

\* a leaf was selected in a record nested in a record of another scope
C7_WitnessDeep ==
    /\ LeafLookedUp
    /\ Len(stack) = 3
    /\ stack[2].section_id # stack[3].section_id

\* C8: at a field whose type is a nested record, with no section of that
\* name indexed, the hydrator's step ends the hydration in the
\* section-not-found error (KeyError) with nothing returned, no frame
\* entered and no client call made, whether or not the field declares a
\* default.
C8_SectionMissingFails ==
    [][ (AtField /\ Cur.cls = "model" /\ SectionsNamed(Cur.key) = {})
        => /\ pc' = "failed"
           /\ err' = "KeyError"
           /\ ret' = None
           /\ calls' = calls
           /\ stack' = stack ]_vars

\* the nested field that found no section declares a default
C8_Witness ==
    /\ pc = "failed"
    /\ err = "KeyError"
    /\ Cur.cls = "model"
    /\ Cur.default # PydanticUndefined
    /\ item.sections # <<>>

\* C9: the section index is keyed by the normalized title (hyphens to
\* underscores, lowercased) of each section with a non-empty title, so a
\* nested field whose name is such a normalized title finds its section: the
\* lookup never ends in the section-not-found error while a section
\* normalizes to the field's name.
C9_IndexKeyedByNormalizedTitle ==
    (pc = "failed" /\ err = "KeyError")
       => ~ \E i \in 1..Len(item.sections) :
               /\ item.sections[i].title # <<>>
               /\ Normalized(item.sections[i].title) = Normalized(Cur.key)

ClientCallsAfterVaults ==
    { i \in 1..Len(calls) :
        calls[i].op \in {"items.list", "items.get", "secrets.resolve"} }

\* C10: in load_config, when no listed vault has exactly the requested
\* title, the call ends in the vault-not-found error and never asks the
\* client for an item listing, an item or a reference.
C10_VaultNotFoundFirst ==
    (entry = "load_config"
       /\ ~ \E i \in 1..Len(op_vaults) : op_vaults[i].title = VaultName)
    => /\ ClientCallsAfterVaults = {}
       /\ pc \in {"get_client", "get_vault_overview", "failed"}
       /\ pc = "failed" => (err = "vault not found" /\ ret = None)
       /\ vault_overview = None

\* the vault was not found among listed vaults, with the item listed
C10_Witness ==
    /\ entry = "load_config"
    /\ pc = "failed"
    /\ err = "vault not found"
    /\ op_vaults # <<>>
    /\ \E i \in 1..Len(op_items) : op_items[i].title = ItemName

\* the order in which load_config calls the client before hydration
LoadConfigOrder == << "authenticate", "vaults.list", "items.list", "items.get" >>

\* the positions of the listed records with exactly this title
Titled(listed, name) == { i \in 1..Len(listed) : listed[i].title = name }

\* C11: load_config calls the client in the order authenticate, list vaults,
\* list items of the found vault, get item, and only then hydrates (every
\* later call is a reference resolution); when the vault is found but no
\* listed item has exactly the requested title the call ends in the
\* item-not-found error with no item fetched and no reference resolved; the
\* item fetched is the first listed item of that title, in the first listed
\* vault of the requested title.
C11_LoadConfigOrder ==
    entry = "load_config" =>
      /\ \A i \in 1..Len(calls) :
            IF i <= Len(LoadConfigOrder)
            THEN calls[i].op = LoadConfigOrder[i]
            ELSE calls[i].op = "secrets.resolve"
      /\ (stack # <<>> \/ pc \in {"hydrate", "resolve", "done"})
            => Len(calls) >= Len(LoadConfigOrder)
      /\ (Titled(op_vaults, VaultName) # {} /\ Titled(op_items, ItemName) = {})
            => /\ \A i \in 1..Len(calls) :
                     calls[i].op \notin {"items.get", "secrets.resolve"}
               /\ pc \in {"get_client", "get_vault_overview",
                           "get_item_overview", "failed"}
               /\ pc = "failed" => (err = "item not found" /\ ret = None)
               /\ item = NoItem
      /\ \A i \in 1..Len(calls) :
            LET v == op_vaults[CHOOSE a \in Titled(op_vaults, VaultName) :
                                 \A b \in Titled(op_vaults, VaultName) : a <= b]
            IN  /\ calls[i].op = "items.list" => calls[i].vault_id = v.id
                /\ calls[i].op = "items.get" =>
                      LET it == op_items[CHOOSE a \in Titled(op_items, ItemName) :
                                   \A b \in Titled(op_items, ItemName) : a <= b]
                      IN  /\ calls[i].vault_id = v.id
                          /\ calls[i].item_id = it.id

\* the item was not found in a vault that lists other items
C11_Witness ==
    /\ entry = "load_config"
    /\ pc = "failed"
    /\ err = "item not found"
    /\ op_items # <<>>
    /\ Len(calls) = 3

\* two vaults and two items of the requested titles were listed, and the
\* first of each was used for the fetch
C11_WitnessFirstOfTwo ==
    /\ entry = "load_config"
    /\ pc = "done"
    /\ Cardinality(Titled(op_vaults, VaultName)) = 2
    /\ Cardinality(Titled(op_items, ItemName)) = 2
    /\ op_vaults[1].id # op_vaults[2].id
    /\ op_items[1].id # op_items[2].id
    /\ calls[4] = Call("items.get", <<>>, op_vaults[1].id, op_items[1].id)

\* texts that are no JSON document
MalformedJson == { s_yes, s_open, s_maybe, <<" ","O","n"," ">>, <<"O","f","f">> }
BoolVocabulary == { <<"t","r","u","e">>, <<"1">>, <<"y","e","s">>, <<"o","n">>,
                    <<"f","a","l","s","e">>, <<"0">>, <<"n","o">>, <<"o","f","f">> }

\* the value of the selected field cannot be processed for this type: its
\* chain of references is too deep, or the chain's final string is
\* malformed JSON for a container, or outside the boolean vocabularies
ValueFails(cls, value) ==
    /\ ChainKnown(value, Fuel)
    /\ \/ ChainLength(value, Fuel) >= 10
       \/ cls = "list" /\ ChainEnd(value, Fuel) \in MalformedJson
       \/ cls = "bool" /\ str_lower(str_strip(ChainEnd(value, Fuel))) \notin BoolVocabulary

\* C12: once a leaf field has selected a field record whose value cannot be
\* processed (malformed JSON for a container, a string outside the boolean
\* vocabularies, a chain of ten or more references), no step stores a value
\* for the field, its default included, or returns a record: the hydration
\* stays in the resolver or ends in the JSON, invalid-boolean or too-deep
\* error, whether or not the field declares a default.
C12_MatchedValueFailureAborts ==
    [][ (LeafLookedUp /\ ValueFails(Cur.cls, raw))
        => /\ pc' \in {"resolve", "failed"}
           /\ stack' = stack
           /\ ret' = None
           /\ pc' = "failed" =>
                 err' = IF ChainLength(raw, Fuel) >= 10 THEN "too deep"
                        ELSE IF Cur.cls = "list" THEN "JSONDecodeError"
                        ELSE "ValueError" ]_vars

\* a container field with a default failed on a truncated JSON array
C12_Witness ==
    /\ pc = "failed"
    /\ err = "JSONDecodeError"
    /\ Cur.cls = "list"
    /\ Cur.default # PydanticUndefined
    /\ item.fields[hit].value = s_open

\* a boolean field with a default failed on a word outside the vocabularies
C12_WitnessBool ==
    /\ pc = "failed"
    /\ err = "ValueError"
    /\ Cur.cls = "bool"
    /\ Cur.default # PydanticUndefined
    /\ item.fields[hit].value = s_maybe

\* a field with a default failed on a chain too deep
C12_WitnessTooDeep ==
    /\ pc = "failed"
    /\ err = "too deep"
    /\ stack # <<>>
    /\ Cur.default # PydanticUndefined

\* a container field with a default failed on the malformed end of a chain
C12_WitnessResolved ==
    /\ pc = "failed"
    /\ err = "JSONDecodeError"
    /\ Cur.default # PydanticUndefined
    /\ Len(calls) = 1

\* the record is one complete instance of the schema: a value of the
\* declared type under every declared field, in declaration order, and the
\* same for every nested record
RECURSIVE Complete(_, _)
Complete(made, sch) ==
    LET dry == model_fields(sch)
    IN  /\ made.kind = "model"
        /\ Len(made.m) = Len(dry)
        /\ \A i \in 1..Len(dry) :
              /\ made.m[i].key = dry[i].key
              /\ made.m[i].val.kind \notin {"undefined", "raised"}
              /\ IsLeaf(dry[i]) => made.m[i].val.kind = dry[i].cls
              /\ dry[i].cls = "model" => Complete(made.m[i].val, dry[i].sub)

\* C13: in every run of load_config and of the hydrator, a value is returned
\* only by a run that ended without error, and it is one complete record of
\* the schema (every declared field has a value, nested records included);
\* a run that ended in an error returned nothing, complete or partial, and
\* a run that has not ended has returned nothing yet.
C13_AllOrNothing ==
    entry \in {"load_config", "hydrate_model"} =>
      /\ pc = "done" => (ret # None /\ err = "" /\ stack = <<>>
                           /\ Complete(ret[1], schema))
      /\ pc = "failed" => (ret = None /\ err # "")
      /\ pc \notin {"done", "failed"} => (ret = None /\ err = "")

\* a record with a nested record was returned by load_config
C13_Witness ==
    /\ entry = "load_config"
    /\ pc = "done"
    /\ schema = "ComplexConfig"
    /\ Len(ret[1].m) = 3
    /\ Len(ret[1].m[2].val.m) = 2

\* a run failed at its last field, with every earlier field, a nested
\* record among them, already hydrated, and returned nothing
C13_WitnessLateFailure ==
    /\ pc = "failed"
    /\ Len(stack) = 1
    /\ Top.idx = 3
    /\ Len(Top.wet) = 2
    /\ Top.wet[2].val.kind = "model"
    /\ ret = None

\* a record whose unannotated field took its default was returned
C13_WitnessSkipped ==
    /\ pc = "done"
    /\ schema = "DefaultedConfig"
    /\ ret[1].m[1].val = IntVal(0)

TrueWords  == { <<"t","r","u","e">>, <<"1">>, <<"y","e","s">>, <<"o","n">> }
FalseWords == { <<"f","a","l","s","e">>, <<"0">>, <<"n","o">>, <<"o","f","f">> }
Trimmed(text) == str_lower(str_strip(text))

\* C14: a direct call of the boolean parser returns true when its argument,
\* trimmed and lowercased, is one of true, 1, yes, on; false when it is one
\* of false, 0, no, off; and for every other argument returns nothing and
\* ends in the invalid-boolean error (ValueError).  The same holds for the
\* value a boolean field of a schema is hydrated from: the stored value is
\* that boolean, or the hydration fails; the field's default is not stored.
C14_BooleanCoercion ==
    /\ []((entry = "parse_bool" /\ Terminated) =>
            /\ Trimmed(raw) \in TrueWords
                  => (pc = "done" /\ ret = Some(BoolVal(TRUE)))
            /\ Trimmed(raw) \in FalseWords
                  => (pc = "done" /\ ret = Some(BoolVal(FALSE)))
            /\ Trimmed(raw) \notin TrueWords \cup FalseWords
                  => (pc = "failed" /\ err = "ValueError" /\ ret = None))
    /\ [][ (LeafLookedUp /\ Cur.cls = "bool" /\ ~ str_startswith(link, OpPrefix))
           => IF Trimmed(link) \in TrueWords \cup FalseWords
              THEN /\ pc' = "hydrate"
                   /\ stack'[Len(stack)].wet =
                         Append(Top.wet, [key |-> Cur.key,
                                          val |-> BoolVal(Trimmed(link) \in TrueWords)])
              ELSE /\ pc' = "failed"
                   /\ err' = "ValueError"
                   /\ stack' = stack ]_vars

\* " On" between blanks was parsed as true
C14_Witness ==
    /\ entry = "parse_bool"
    /\ raw = <<" ","\n","O","n"," ">>
    /\ ret = Some(BoolVal(TRUE))

\* "Off" was parsed as false
C14_WitnessFalse ==
    /\ entry = "parse_bool"
    /\ raw = <<"O","f","f">>
    /\ ret = Some(BoolVal(FALSE))

\* a word with a blank inside was refused
C14_WitnessInvalid ==
    /\ entry = "parse_bool"
    /\ raw = <<"y","e"," ","s">>
    /\ pc = "failed"

\* a boolean field with default false was hydrated to true from " On "
C14_WitnessField ==
    /\ pc = "hydrate"
    /\ Top.schema = "TagsConfig"
    /\ Top.idx = 2
    /\ item.fields # <<>>
    /\ item.fields[1].value = <<" ","O","n"," ">>
    /\ Top.wet = << [key |-> <<"d">>, val |-> BoolVal(TRUE)] >>

\* the value of the first of these sources that defines setting k, the
\* declared default when none does
FirstOf(a, b, c, d, k) ==
    IF sources[a][k] # None THEN StrVal(sources[a][k][1])
    ELSE IF sources[b][k] # None THEN StrVal(sources[b][k][1])
    ELSE IF sources[c][k] # None THEN StrVal(sources[c][k][1])
    ELSE IF sources[d][k] # None THEN StrVal(sources[d][k][1])
    ELSE SettingDefault(k)

DevMode == environ # None /\ environ # Some(<<>>)

\* C15: a settings object built with CONFIGATOR_DEV_MODE set to a non-empty
\* value holds, for each setting, the value of the first defining source in
\* the order .env file, environment, init kwargs, file secrets, so a
\* setting the environment defines never holds the init kwarg; built with
\* the variable unset or empty it holds the value of the first defining
\* source in the order init kwargs, environment, .env file, file secrets, so
\* a setting given as init kwarg always holds the kwarg.
C15_SourcePriority ==
    (entry = "settings" /\ pc = "done") =>
      \A k \in 1..Len(SettingNames) :
        LET held == ret[1].m[k].val
        IN  /\ ret[1].m[k].key = SettingNames[k]
            /\ DevMode =>
                  /\ held = FirstOf("dotenv", "env", "init", "file_secret", k)
                  /\ sources["env"][k] # None => held # StrVal(SourceValue("init"))
            /\ ~ DevMode =>
                  /\ held = FirstOf("init", "env", "dotenv", "file_secret", k)
                  /\ sources["init"][k] # None => held = StrVal(SourceValue("init"))

\* in developer mode the environment's value won over the init kwarg
C15_Witness ==
    /\ entry = "settings"
    /\ pc = "done"
    /\ environ = Some(<<"0">>)
    /\ sources["init"][1] # None
    /\ sources["env"][1] # None
    /\ sources["dotenv"][1] = None
    /\ ret[1].m[1].val = StrVal(SourceValue("env"))

\* with the variable set but empty the init kwarg won over the environment
C15_WitnessEmpty ==
    /\ entry = "settings"
    /\ pc = "done"
    /\ environ = Some(<<>>)
    /\ sources["init"][1] # None
    /\ sources["env"][1] # None
    /\ ret[1].m[1].val = StrVal(SourceValue("init"))

\* the positions of the item's sections that have a title
TitledSections == { i \in 1..Len(item.sections) : item.sections[i].title # <<>> }

\* C16: the section index of every item has an entry only for sections with
\* a non-empty title: it has no empty key, each key is the lowercased title
\* of a titled section and maps to such a section's id, and an item whose
\* sections all lack a title has an empty index; the scope a nested record
\* is entered with is always the id of a titled section.
C16_EmptyTitlesNotIndexed ==
    /\ [](LET index == get_sections(item.sections)
          IN  /\ <<>> \notin DOMAIN index
              /\ \A k \in DOMAIN index :
                    \E i \in TitledSections :
                       /\ str_lower(item.sections[i].title) = k
                       /\ item.sections[i].id = index[k]
              /\ TitledSections = {} => DOMAIN index = {})
    /\ [][ (stack # <<>> /\ Len(stack') > Len(stack))
           => stack'[Len(stack')].section_id \in
                 { Some(item'.sections[i].id) : i \in TitledSections } ]_vars

\* a nested record was entered on an item that also has a section without
\* title, under another id
C16_Witness ==
    /\ Len(stack) = 2
    /\ \E i \in 1..Len(item.sections) :
          /\ item.sections[i].title = <<>>
          /\ Some(item.sections[i].id) # Top.section_id

\* the nested lookup failed on an item whose only sections have no title
C16_WitnessOnlyUntitled ==
    /\ pc = "failed"
    /\ err = "KeyError"
    /\ Len(item.sections) = 2
    /\ TitledSections = {}

\* p comes before q, or is q, in the order in which a schema's fields are
\* visited: by position, a nested record's fields at its field's position
RECURSIVE PathLeq(_, _)
PathLeq(p, q) ==
    IF p = <<>> THEN TRUE
    ELSE IF q = <<>> THEN FALSE
    ELSE IF Head(p) # Head(q) THEN Head(p) < Head(q)
    ELSE PathLeq(Tail(p), Tail(q))

\* C17: a hydration visits the fields of each schema one at a time in
\* declared order: the position of every active loop moves by one field at
\* a time and never back; the client's resolve calls are ordered by the
\* position of the field they were made for (a nested record's calls
\* together at its field's position); no call was ever made for a field
\* after the current one, so when a field fails no later field has called
\* the client, and after the failure no call is made at all.
C17_DeclaredOrder ==
    /\ [](stack # <<>> =>
            /\ \A i, j \in ResolveCalls :
                  i <= j => PathLeq(calls[i].path, calls[j].path)
            /\ \A i \in ResolveCalls : PathLeq(calls[i].path, FieldPath))
    /\ [][ /\ \A k \in 1..Len(stack) :
               k <= Len(stack') =>
                  /\ stack'[k].idx \in {stack[k].idx, stack[k].idx + 1}
                  /\ (k < Len(stack) /\ Len(stack') >= Len(stack))
                        => stack'[k].idx = stack[k].idx
           /\ Len(stack') > Len(stack) => stack'[Len(stack')].idx = 1
           /\ pc = "failed" => calls' = calls ]_vars

\* the client was called for a top-level field, then for both fields of a
\* nested record, then for the top-level field after it
C17_Witness ==
    /\ pc = "done"
    /\ schema = "ComplexConfig"
    /\ Cardinality(ResolveCalls) = 6
    /\ \E a, b, c, d \in ResolveCalls :
          /\ a < b /\ b < c /\ c < d
          /\ calls[a].path = <<1>>
          /\ calls[b].path = <<2, 1>>
          /\ calls[c].path = <<2, 2>>
          /\ calls[d].path = <<3>>

\* a nested field failed after calls for it and for an earlier field, and
\* the fields after it were never reached
C17_WitnessFailure ==
    /\ pc = "failed"
    /\ Len(stack) = 2
    /\ FieldPath = <<2, 1>>
    /\ \E a, b \in ResolveCalls :
          calls[a].path = <<1>> /\ calls[b].path = <<2, 1>>

\* the resolve calls made for the field being hydrated
CallsHere == { i \in ResolveCalls : calls[i].path = FieldPath }

\* C18: for a leaf field that selected a field record, the first resolve
\* call receives the record's raw value verbatim, each later call receives
\* the string the client returned to the call before it, and the string in
\* the resolver's hands is the raw value or the last string returned; the
\* value stored for the field is the coercion to the declared type of the
\* chain's final string, which is no reference: a reference is never
\* stored and the default is not consulted.
C18_ResolvedThenCoerced ==
    /\ [](\A i \in ResolveCalls :
            (i > 1 /\ calls[i - 1].op = "secrets.resolve"
               /\ calls[i - 1].path = calls[i].path)
              => /\ calls[i - 1].link \in DOMAIN secrets
                 /\ calls[i].link = secrets[calls[i - 1].link])
    /\ [](LeafLookedUp =>
            /\ raw = item.fields[hit].value
            /\ CallsHere = {} => link = raw
            /\ CallsHere # {} =>
                  LET first == CHOOSE i \in CallsHere : \A j \in CallsHere : i <= j
                      last  == CHOOSE i \in CallsHere : \A j \in CallsHere : j <= i
                  IN  /\ calls[first].link = raw
                      /\ CallsHere = first..last
                      /\ last = Len(calls)
                      /\ calls[last].link \in DOMAIN secrets
                      /\ link = secrets[calls[last].link])
    /\ [][ (LeafLookedUp /\ pc' = "hydrate")
           => LET final == ChainEnd(raw, Fuel)
              IN  /\ ~ str_startswith(final, OpPrefix)
                  /\ link = final
                  /\ calls' = calls
                  /\ Cardinality(CallsHere) = ChainLength(raw, Fuel)
                  /\ stack'[Len(stack)].wet =
                        Append(Top.wet, [key |-> Cur.key,
                                         val |-> coerce(Cur.cls, final)]) ]_vars

\* a number field with a default was hydrated through a reference
C18_Witness ==
    /\ pc = "hydrate"
    /\ Top.schema = "TagsConfig"
    /\ Top.idx = 4
    /\ hit = 3
    /\ Len(Top.wet) = 3
    /\ item.fields[hit].value = NumRef
    /\ Top.wet[3].val = IntVal(30)
    /\ calls[Len(calls)].link = NumRef

\* a string field was hydrated through a chain of two references
C18_WitnessChain ==
    /\ pc = "hydrate"
    /\ Len(stack) = 1
    /\ Top.schema = "ComplexConfig"
    /\ Top.idx = 2
    /\ item.fields # <<>>
    /\ item.fields[1].value = RefOfLength(2)
    /\ Top.wet[1].val = StrVal(s_yes)
    /\ Len(calls) = 2

\* C19: every call of the resolver ends, whatever the store answers, a
\* store whose references lead in a circle included: the hop counter never
\* passes 10, a direct call makes one client call per hop and at most 10,
\* and a direct call whose references are all answered ends either
\* returning a string that is no reference or in the too-deep error after
\* exactly 10 calls; every run of the program ends.
C19_ResolveTerminates ==
    /\ [](moria_level <= 10)
    /\ [](entry = "resolve_op_link" =>
            /\ Len(calls) <= 10
            /\ \A i \in 1..Len(calls) : calls[i].op = "secrets.resolve"
            /\ \/ Len(calls) = moria_level
               \/ pc = "failed" /\ err = "client error"
                    /\ Len(calls) = moria_level + 1)
    /\ []((entry = "resolve_op_link" /\ Terminated /\ ChainKnown(raw, Fuel)) =>
            \/ /\ pc = "done"
               /\ ret # None
               /\ ~ str_startswith(ret[1].s, OpPrefix)
            \/ /\ pc = "failed"
               /\ err = "too deep"
               /\ ret = None
               /\ Len(calls) = 10)
    /\ <>Terminated

\* a direct call on a reference to itself ended in the too-deep error after
\* ten calls, all with that reference
C19_Witness ==
    /\ entry = "resolve_op_link"
    /\ raw = SelfRef
    /\ pc = "failed"
    /\ err = "too deep"
    /\ Len(calls) = 10
    /\ \A i \in 1..Len(calls) : calls[i].link = raw

\* a direct call on a chain that leads back to its first reference ended in
\* the too-deep error after ten calls
C19_WitnessCircle ==
    /\ entry = "resolve_op_link"
    /\ secrets[Ref(MaxChain)] = Ref(1)
    /\ pc = "failed"
    /\ err = "too deep"
    /\ \E i \in 2..Len(calls) : calls[i].link = Ref(1)

\* the positions of the field records that qualify for this key under this
\* scope: the key for normalized title, and the scope's section when there
\* is a scope
Qualifying(key, scope) ==
    { i \in 1..Len(item.fields) :
        /\ Normalized(item.fields[i].title) = str_lower(key)
        /\ (scope = None \/ item.fields[i].section_id = scope) }

\* C20: when several field records qualify for a leaf field's key and scope
\* the one selected is the first of them in the item's field list; the
\* resolver is handed that record's value, every call made for the field
\* belongs to that value's chain, and the value stored is the coercion of
\* that chain's final string: a later duplicate is neither resolved nor
\* used.
C20_FirstDuplicateWins ==
    /\ [](LeafLookedUp =>
            LET dups  == Qualifying(Cur.key, Top.section_id)
                first == CHOOSE i \in dups : \A j \in dups : i <= j
            IN  /\ dups # {}
                /\ hit = first
                /\ raw = item.fields[first].value
                /\ \A i \in CallsHere :
                      \E n \in 0..10 : ChainLength(calls[i].link, Fuel) + n
                                          = ChainLength(raw, Fuel)
                /\ CallsHere # {} =>
                      calls[CHOOSE i \in CallsHere : \A j \in CallsHere : i <= j].link
                        = item.fields[first].value)
    /\ [][ (LeafLookedUp /\ pc' = "hydrate")
           => LET dups  == Qualifying(Cur.key, Top.section_id)
                  first == CHOOSE i \in dups : \A j \in dups : i <= j
              IN  stack'[Len(stack)].wet =
                     Append(Top.wet,
                            [key |-> Cur.key,
                             val |-> coerce(Cur.cls,
                                            ChainEnd(item.fields[first].value, Fuel))]) ]_vars

\* of two records of one section with the same title the first, a plain
\* value, was stored, and the reference of the second was never resolved
C20_Witness ==
    /\ pc = "hydrate"
    /\ Len(stack) = 2
    /\ Len(item.fields) = 2
    /\ item.fields[1].title = item.fields[2].title
    /\ item.fields[1].section_id = Top.section_id
    /\ item.fields[2].section_id = Top.section_id
    /\ item.fields[1].value = s_yes
    /\ item.fields[2].value = NumRef
    /\ Top.wet = << [key |-> <<"d">>, val |-> BoolVal(TRUE)] >>
    /\ calls = <<>>

\* of two records with the same title the first, a reference, was resolved
\* and its secret refused for the type, though the second would have done
C20_WitnessFirstFails ==
    /\ pc = "failed"
    /\ err = "ValueError"
    /\ Len(item.fields) = 2
    /\ item.fields[1].title = item.fields[2].title
    /\ item.fields[1].value = NumRef
    /\ item.fields[2].value = s_yes
    /\ Cur.cls = "bool"
    /\ Len(calls) = 1

\* the positions of the titled sections whose normalized title (hyphens to
\* underscores, lowercased) is the normalized name
SectionsNormalizedTo(name) ==
    { i \in 1..Len(item.sections) :
        /\ item.sections[i].title # <<>>
        /\ Normalized(item.sections[i].title) = Normalized(name) }

\* C21: a nested record is always entered with the id of the last section,
\* in the item's section-list order, among the titled sections whose
\* normalized title is the nested field's name: with several sections of
\* one normalized title the last one wins.
C21_LastSectionWins ==
    \A k \in 2..Len(stack) :
       LET key   == model_fields(stack[k - 1].schema)[stack[k - 1].idx].key
           named == SectionsNormalizedTo(key)
       IN  /\ named # {}
           /\ stack[k].section_id =
                 Some(item.sections[CHOOSE i \in named : \A j \in named : j <= i].id)

\* the resolve calls a hydration of the schema under the scope makes from
\* its i-th field on when no field fails: for each leaf the length of the
\* chain of the first qualifying record's value, for each nested record the
\* calls of its own fields
RECURSIVE SumOfChains(_, _, _)
SumOfChains(sch, scope, i) ==
    LET dry == model_fields(sch)
        f == dry[i]
        dups == Qualifying(f.key, scope)
        here == IF f.cls = "none" THEN 0
                ELSE IF f.cls = "model"
                THEN SumOfChains(f.sub,
                                 Some(get_sections(item.sections)[str_lower(f.key)]), 1)
                ELSE IF dups = {} THEN 0
                ELSE ChainLength(item.fields[CHOOSE a \in dups : \A b \in dups : a <= b].value,
                                 Fuel)
    IN  IF i > Len(dry) THEN 0 ELSE here + SumOfChains(sch, scope, i + 1)

\* C22: the hop counter is per field: every field's resolution starts it at
\* zero and while a field is resolved it counts that field's calls only; a
\* hydration ends in the too-deep error only at a field whose own chain has
\* ten or more references, however many calls the fields before it made;
\* and a hydration that returns has made as many resolve calls as the
\* chains of its matched fields have references in all.
C22_HopBoundPerField ==
    /\ [][ (pc = "hydrate" /\ pc' = "resolve") => moria_level' = 0 ]_vars
    /\ [](LeafLookedUp => moria_level = Cardinality(CallsHere))
    /\ []((pc = "failed" /\ err = "too deep" /\ stack # <<>>)
            => /\ ChainLength(raw, Fuel) >= 10
               /\ Cardinality(CallsHere) = 10)
    /\ []((pc = "done" /\ entry \in {"load_config", "hydrate_model"})
            => Cardinality(ResolveCalls) = SumOfChains(schema, None, 1))

\* a hydration returned after twenty resolve calls, none of its fields
\* having a chain of more than nine references
C22_Witness ==
    /\ pc = "done"
    /\ entry = "hydrate_model"
    /\ schema = "ComplexConfig"
    /\ Cardinality(ResolveCalls) = 20
    /\ \A i \in 1..Len(item.fields) : ChainLength(item.fields[i].value, Fuel) <= 9

\* a field with a chain of nine references was resolved after nine calls
\* had been made for the field before it
C22_WitnessSecondField ==
    /\ LeafLookedUp
    /\ Len(stack) = 2
    /\ moria_level = 9
    /\ Len(calls) = 18
    /\ ~ str_startswith(link, OpPrefix)

====
